---- MODULE Spec2Model ----
(***************************************************************************)
(* Triplet mining and triplet loss of pyannote.audio                       *)
(* (pyannote/audio/embedding/approaches/triplet_loss.py), and the          *)
(* construction of the labeling models (pyannote/audio/labeling/models.py).*)
(*                                                                         *)
(* Batch indices are the Python indices 0..n-1.  Labels `y` and condensed  *)
(* distance vectors are functions on 0..n-1 and 0..L-1; the lists the      *)
(* samplers build are sequences of batch indices.  Distances, margins and  *)
(* losses are exact multiples of one distance quantum (integers).          *)
(***************************************************************************)
EXTENDS Integers, Sequences, FiniteSets, TLC

\* ---- bounds of the model ----
MaxN == 5
MaxDist == 1
MaxMargin == 1
MaxBatches == 2
MaxLayers == 2
MaxFeatures == 2

Labels == {"A", "B"}

NoError == "none"
ValueError == "ValueError"

Min2(a, b) == IF a <= b THEN a ELSE b
Max2(a, b) == IF a >= b THEN a ELSE b

\* len() of a 0-based array
Size(f) == Cardinality(DOMAIN f)

\* enumerate(y) / np.where(...)[0]: the batch indices in increasing order
Indices(n) == [k \in 1..n |-> k - 1]

\* ---- scipy.spatial.distance.squareform (vector -> square matrix) ----
\* number of rows d with d*(d-1)/2 entries; an empty vector gives a 1x1 matrix
SquareSize(L) == IF L = 0 THEN 1 ELSE CHOOSE d \in 2..(L + 1) : d * (d - 1) = 2 * L

\* entries of the rows above row i of the upper triangle
RECURSIVE RowsBefore(_, _)
RowsBefore(n, i) == IF i = 0 THEN 0 ELSE RowsBefore(n, i - 1) + (n - 1 - (i - 1))

\* position of the pair {i, j} in the row-major fill of the upper triangle
TriangleOffset(n, i, j) ==
    LET lo == Min2(i, j)
        hi == Max2(i, j)
    IN RowsBefore(n, lo) + (hi - lo - 1)

squareform(v) ==
    LET n == SquareSize(Size(v))
    IN [i \in 0..(n - 1) |->
           [j \in 0..(n - 1) |-> IF i = j THEN 0 ELSE v[TriangleOffset(n, i, j)]]]

\* ---- the three parallel lists a sampler builds ----
\* a sampler's outcome: the lists it returns, or the exception it raises
NoTriplets ==
    [raised |-> NoError, anchors |-> << >>, positives |-> << >>, negatives |-> << >>]

Raised(e) ==
    [raised |-> e, anchors |-> << >>, positives |-> << >>, negatives |-> << >>]

\* one triplet (anchor, positive, m) appended for every m of `found`, in order
AppendTriplets(anchor, positive, found) ==
    [raised    |-> NoError,
     anchors   |-> [k \in 1..Len(found) |-> anchor],
     positives |-> [k \in 1..Len(found) |-> positive],
     negatives |-> found]

\* the appends of one iteration, followed by those of the iterations after it;
\* an exception in a later iteration leaves the function without a result
Then(first, rest) ==
    IF rest.raised # NoError THEN rest
    ELSE [raised    |-> NoError,
          anchors   |-> first.anchors \o rest.anchors,
          positives |-> first.positives \o rest.positives,
          negatives |-> first.negatives \o rest.negatives]

\* ---- batch_all ----
\* the negative loop: every index whose label differs from the anchor's
AllNegatives(y, anchor, positive) ==
    SelectSeq(Indices(Size(y)), LAMBDA negative : ~(y[negative] = y[anchor]))

\* the positive loop, from index `positive` on
RECURSIVE AllPositives(_, _, _)
AllPositives(y, anchor, positive) ==
    IF positive >= Size(y) THEN NoTriplets
    ELSE IF (anchor = positive) \/ (y[anchor] # y[positive])
         THEN AllPositives(y, anchor, positive + 1)
         ELSE Then(AppendTriplets(anchor, positive, AllNegatives(y, anchor, positive)),
                   AllPositives(y, anchor, positive + 1))

\* batch_all whose anchor loop stops one index early
RECURSIVE AllAnchors_SkipLast(_, _)
AllAnchors_SkipLast(y, anchor) ==
    IF anchor >= Size(y) - 1 THEN NoTriplets
    ELSE Then(AllPositives(y, anchor, 0), AllAnchors_SkipLast(y, anchor + 1))

\* the anchor loop, from index `anchor` on
RECURSIVE AllAnchors(_, _)
AllAnchors(y, anchor) ==
    IF anchor >= Size(y) THEN NoTriplets
    ELSE Then(AllPositives(y, anchor, 0), AllAnchors(y, anchor + 1))

batch_all(y, distances) == AllAnchors(y, 0)

\* ---- batch_easy ----
\* batch_easy that keeps only d(anchor, positive) < d(anchor, negative)
EasyNegatives_Strict(y, sq, anchor, positive) ==
    SelectSeq(Indices(Size(y)),
              LAMBDA negative : /\ ~(y[negative] = y[anchor])
                                /\ ~(sq[anchor][positive] >= sq[anchor][negative]))

\* the negative loop: every index of another label that is not nearer to the
\* anchor than the positive
EasyNegatives(y, sq, anchor, positive) ==
    SelectSeq(Indices(Size(y)),
              LAMBDA negative : /\ ~(y[negative] = y[anchor])
                                /\ ~(sq[anchor][positive] > sq[anchor][negative]))

RECURSIVE EasyPositives(_, _, _, _)
EasyPositives(y, sq, anchor, positive) ==
    IF positive >= Size(y) THEN NoTriplets
    ELSE IF (anchor = positive) \/ (y[anchor] # y[positive])
         THEN EasyPositives(y, sq, anchor, positive + 1)
         ELSE Then(AppendTriplets(anchor, positive,
                                  EasyNegatives(y, sq, anchor, positive)),
                   EasyPositives(y, sq, anchor, positive + 1))

RECURSIVE EasyAnchors(_, _, _)
EasyAnchors(y, sq, anchor) ==
    IF anchor >= Size(y) THEN NoTriplets
    ELSE Then(EasyPositives(y, sq, anchor, 0), EasyAnchors(y, sq, anchor + 1))

batch_easy(y, distances) == EasyAnchors(y, squareform(distances), 0)

\* ---- numpy argmax / argmin over d[candidates]: first occurrence wins ----
RECURSIVE ArgMaxFrom(_, _, _, _)
ArgMaxFrom(d, cand, k, best) ==
    IF k > Len(cand) THEN best
    ELSE IF d[cand[k]] > d[cand[best]]
         THEN ArgMaxFrom(d, cand, k + 1, k)
         ELSE ArgMaxFrom(d, cand, k + 1, best)

\* an argmin scan that moves to a later candidate on a tie
RECURSIVE ArgMinFrom_LastOccurrence(_, _, _, _)
ArgMinFrom_LastOccurrence(d, cand, k, best) ==
    IF k > Len(cand) THEN best
    ELSE IF d[cand[k]] <= d[cand[best]]
         THEN ArgMinFrom_LastOccurrence(d, cand, k + 1, k)
         ELSE ArgMinFrom_LastOccurrence(d, cand, k + 1, best)

RECURSIVE ArgMinFrom(_, _, _, _)
ArgMinFrom(d, cand, k, best) ==
    IF k > Len(cand) THEN best
    ELSE IF d[cand[k]] < d[cand[best]]
         THEN ArgMinFrom(d, cand, k + 1, k)
         ELSE ArgMinFrom(d, cand, k + 1, best)

\* the hardest positive taken with argmin, the hardest negative taken first
argmax_AsArgmin(d, cand) == ArgMinFrom(d, cand, 2, 1)
argmin_First(d, cand) == 1

\* position (1-based) in cand; only defined for a non-empty cand
argmax(d, cand) == ArgMaxFrom(d, cand, 2, 1)
argmin(d, cand) == ArgMinFrom(d, cand, 2, 1)

\* the same-label selection that forgets to drop the anchor
SameLabel_WithAnchor(y, anchor) ==
    SelectSeq(Indices(Size(y)), LAMBDA p : y[p] = y[anchor])

\* np.where(y == y_anchor)[0] without the anchor itself
SameLabel(y, anchor) ==
    SelectSeq(Indices(Size(y)), LAMBDA p : y[p] = y[anchor] /\ p # anchor)

\* np.where(y != y_anchor)[0]
OtherLabel(y, anchor) ==
    SelectSeq(Indices(Size(y)), LAMBDA p : y[p] # y[anchor])

\* ---- batch_hard ----
\* argmax / argmin of an empty selection raise ValueError, which ends the call
RECURSIVE HardAnchors(_, _, _)
HardAnchors(y, sq, anchor) ==
    IF anchor >= Size(y) THEN NoTriplets
    ELSE LET d   == sq[anchor]
             pos == SameLabel(y, anchor)
             neg == OtherLabel(y, anchor)
         IN IF pos = << >> THEN Raised(ValueError)
            ELSE IF neg = << >> THEN Raised(ValueError)
            ELSE Then(AppendTriplets(anchor, pos[argmax(d, pos)],
                                     << neg[argmin(d, neg)] >>),
                      HardAnchors(y, sq, anchor + 1))

batch_hard(y, distances) == HardAnchors(y, squareform(distances), 0)

\* ---- batch_negative ----
\* np.where(y == y_anchor)[0]: the anchor is among them
WithLabel(y, anchor) ==
    SelectSeq(Indices(Size(y)), LAMBDA p : y[p] = y[anchor])

\* the positive loop: one triplet for every same-label index but the anchor
NegativePositives(same, anchor, negative) ==
    LET kept == SelectSeq(same, LAMBDA positive : ~(positive = anchor))
    IN [raised    |-> NoError,
        anchors   |-> [k \in 1..Len(kept) |-> anchor],
        positives |-> kept,
        negatives |-> [k \in 1..Len(kept) |-> negative]]

RECURSIVE NegativeAnchors(_, _, _)
NegativeAnchors(y, sq, anchor) ==
    IF anchor >= Size(y) THEN NoTriplets
    ELSE LET d   == sq[anchor]
             neg == OtherLabel(y, anchor)
         IN IF neg = << >> THEN Raised(ValueError)
            ELSE Then(NegativePositives(WithLabel(y, anchor), anchor,
                                        neg[argmin(d, neg)]),
                      NegativeAnchors(y, sq, anchor + 1))

batch_negative(y, distances) == NegativeAnchors(y, squareform(distances), 0)

\* ---- TripletLoss.__init__ ----
Metrics == {"euclidean", "cosine", "angular"}
Clamps == {"positive", "sigmoid", "softmargin"}
Samplings == {"all", "hard", "negative", "easy"}

\* argument values tried at construction: the documented ones and one other
MetricArgs == Metrics \cup {"manhattan"}
ClampArgs == Clamps \cup {"relu"}
SamplingArgs == Samplings \cup {"random"}
MarginArgs == 0..MaxMargin

InvalidMetric == "InvalidMetric"

\* EmbeddingApproach.max_distance: D of the metric, in distance quanta
\* (pi of the angular metric is kept as 3); an unknown metric is an error
max_distance(metric) ==
    CASE metric = "cosine"    -> [raised |-> NoError, value |-> 2]
      [] metric = "euclidean" -> [raised |-> NoError, value |-> 2]
      [] metric = "angular"   -> [raised |-> NoError, value |-> 3]
      [] OTHER                -> [raised |-> InvalidMetric, value |-> 0]

NoObject == [exists |-> FALSE]

\* a constructor that does not check `sampling`
TripletLoss_init_NoSamplingCheck(metric, margin, clamp, sampling) ==
    LET D == max_distance(metric)
    IN IF D.raised # NoError THEN [raised |-> D.raised, self |-> NoObject]
       ELSE IF clamp \notin {"positive", "sigmoid", "softmargin"}
            THEN [raised |-> ValueError, self |-> NoObject]
       ELSE [raised |-> NoError,
             self |-> [exists |-> TRUE, metric |-> metric, margin |-> margin,
                       margin_ |-> margin * D.value, clamp |-> clamp,
                       sampling |-> sampling]]

\* a constructor that leaves max_distance to the first use of the margin
TripletLoss_init_LazyMargin(metric, margin, clamp, sampling) ==
    IF clamp \notin {"positive", "sigmoid", "softmargin"}
    THEN [raised |-> ValueError, self |-> NoObject]
    ELSE IF sampling \notin {"all", "hard", "negative", "easy"}
         THEN [raised |-> ValueError, self |-> NoObject]
    ELSE [raised |-> NoError,
          self |-> [exists |-> TRUE, metric |-> metric, margin |-> margin,
                    margin_ |-> margin * max_distance(metric).value,
                    clamp |-> clamp, sampling |-> sampling]]

\* the object, or the exception that ends the constructor
TripletLoss_init(metric, margin, clamp, sampling) ==
    LET D == max_distance(metric)
    IN IF D.raised # NoError THEN [raised |-> D.raised, self |-> NoObject]
       ELSE IF clamp \notin {"positive", "sigmoid", "softmargin"}
            THEN [raised |-> ValueError, self |-> NoObject]
       ELSE IF sampling \notin {"all", "hard", "negative", "easy"}
            THEN [raised |-> ValueError, self |-> NoObject]
       ELSE [raised |-> NoError,
             self |-> [exists |-> TRUE, metric |-> metric, margin |-> margin,
                       margin_ |-> margin * D.value, clamp |-> clamp,
                       sampling |-> sampling]]

\* ---- pyannote.core.utils.distance.to_condensed ----
\* i*n - i*i/2 - 3*i/2 + j - 1 on (min, max); i = j is refused by the caller
to_condensed(n, i, j) ==
    LET lo == Min2(i, j)
        hi == Max2(i, j)
    IN (2 * lo * n - lo * lo - 3 * lo) \div 2 + hi - 1

\* ---- triplet_loss ----
\* the length of the condensed vector taken for the number of embeddings
EstimateN_Length(L) == L

\* n = int(.5 * sqrt(1 + 8 * len(distances))), the "1 +" left out
EstimateN_NoPlusOne(L) ==
    CHOOSE n \in 0..(L + 1) :
        (2 * n) * (2 * n) <= 1 + 8 * L /\ 1 + 8 * L < (2 * n + 2) * (2 * n + 2)

\* n = int(.5 * (1 + sqrt(1 + 8 * len(distances))))
EstimateN(L) ==
    CHOOSE n \in 1..(L + 1) :
        (2 * n - 1) * (2 * n - 1) <= 1 + 8 * L /\ 1 + 8 * L < (2 * n + 1) * (2 * n + 1)

UnboundLocalError == "UnboundLocalError"
AttributeError == "AttributeError"

\* 'positive' clamping that adds the margin and forgets to clamp
clamp_loss_NoClamp(self, delta) ==
    CASE self.clamp = "positive"   -> <<"value", delta + self.margin_>>
      [] self.clamp = "softmargin" -> <<"log1p_exp", delta>>
      [] self.clamp = "sigmoid"    -> <<"sigmoid", 10 * (delta + self.margin_)>>

\* 'sigmoid' clamping as sigmoid(10 * delta), without the margin
clamp_loss_SigmoidNoMargin(self, delta) ==
    CASE self.clamp = "positive"   -> <<"value", Max2(delta + self.margin_, 0)>>
      [] self.clamp = "softmargin" -> <<"log1p_exp", delta>>
      [] self.clamp = "sigmoid"    -> <<"sigmoid", 10 * delta>>

\* a loss is a number (kind "value") or a function applied to a number
clamp_loss(self, delta) ==
    CASE self.clamp = "positive"   -> <<"value", Max2(delta + self.margin_, 0)>>
      [] self.clamp = "softmargin" -> <<"log1p_exp", delta>>
      [] self.clamp = "sigmoid"    -> <<"sigmoid", 10 * (delta + self.margin_)>>

IndexError == "IndexError"

\* distances[offsets] of a 1-D tensor: an offset in -L..-1 counts from the end,
\* one outside -L..L-1 raises IndexError
InRange(distances, offset) ==
    -Size(distances) <= offset /\ offset < Size(distances)

Lookup(distances, offset) ==
    IF offset < 0 THEN distances[Size(distances) + offset] ELSE distances[offset]

NoResult(e) ==
    [raised |-> e, loss |-> << >>, delta |-> << >>, pos |-> << >>, neg |-> << >>]

\* called with return_delta=True: loss, delta, pos and neg are returned
triplet_loss(self, distances, anchors, positives, negatives) ==
    LET n == EstimateN(Size(distances))
        K == 1..Len(anchors)
    IN IF \E k \in K : anchors[k] = positives[k]
       THEN NoResult(ValueError)
       ELSE IF \E k \in K : anchors[k] = negatives[k]
       THEN NoResult(ValueError)
       ELSE LET pos == [k \in K |-> to_condensed(n, anchors[k], positives[k])]
                neg == [k \in K |-> to_condensed(n, anchors[k], negatives[k])]
            IN IF \E k \in K : ~InRange(distances, pos[k]) \/ ~InRange(distances, neg[k])
               THEN NoResult(IndexError)
               ELSE IF self.clamp \notin {"positive", "softmargin", "sigmoid"}
               THEN NoResult(UnboundLocalError)
               ELSE LET delta == [k \in K |-> Lookup(distances, pos[k])
                                                 - Lookup(distances, neg[k])]
                    IN [raised |-> NoError,
                        loss |-> [k \in K |-> clamp_loss(self, delta[k])],
                        delta |-> delta,
                        pos |-> pos,
                        neg |-> neg]

\* ---- batch_loss ----
\* a batch_loss that mines all triplets whatever the sampling policy
sampler_AlwaysAll(self, y, distances) ==
    CASE self.sampling \in {"all", "hard", "negative", "easy"} -> batch_all(y, distances)
      [] OTHER -> Raised(AttributeError)

\* getattr(self, 'batch_{0}'.format(self.sampling))
sampler(self, y, distances) ==
    CASE self.sampling = "all"      -> batch_all(y, distances)
      [] self.sampling = "hard"     -> batch_hard(y, distances)
      [] self.sampling = "negative" -> batch_negative(y, distances)
      [] self.sampling = "easy"     -> batch_easy(y, distances)
      [] OTHER                      -> Raised(AttributeError)

\* torch.mean: the sum of the terms over their number, nan for no term
mean(terms) == IF Len(terms) = 0 THEN [nan |-> TRUE, terms |-> terms, count |-> 0]
               ELSE [nan |-> FALSE, terms |-> terms, count |-> Len(terms)]

NoLoss == [nan |-> FALSE, terms |-> << >>, count |-> 0]

\* ---- labeling models: StackedRNN and ConvRNN (labeling/models.py) ----
TASK_CLASSIFICATION == "TASK_CLASSIFICATION"
TASK_MULTI_LABEL_CLASSIFICATION == "TASK_MULTI_LABEL_CLASSIFICATION"
TASK_REGRESSION == "TASK_REGRESSION"
TaskTypes == {TASK_CLASSIFICATION, TASK_MULTI_LABEL_CLASSIFICATION, TASK_REGRESSION}

RuntimeError == "RuntimeError"

NoNet == [exists |-> FALSE]
NetFailed(e) == [raised |-> e, self |-> NoNet]

\* the loop that creates the recurrent layers, from the i-th hidden dimension
\* on: the `rnn` test is made once per layer
RECURSIVE recurrent_layers(_, _, _, _, _)
recurrent_layers(rnn, input_dim, recurrent, bidirectional, i) ==
    IF i > Len(recurrent)
    THEN [raised |-> NoError, layers |-> << >>, input_dim |-> input_dim]
    ELSE IF rnn # "LSTM" /\ rnn # "GRU"
    THEN [raised |-> ValueError, layers |-> << >>, input_dim |-> input_dim]
    ELSE LET layer == [kind |-> rnn, input_dim |-> input_dim,
                       hidden_dim |-> recurrent[i], bidirectional |-> bidirectional]
             rest == recurrent_layers(rnn, recurrent[i], recurrent, bidirectional, i + 1)
         IN IF rest.raised # NoError THEN rest
            ELSE [raised |-> NoError, layers |-> <<layer>> \o rest.layers,
                  input_dim |-> rest.input_dim]

\* the loop that creates the linear layers
linear_layers(input_dim, linear) ==
    [k \in 1..Len(linear) |->
        [kind |-> "Linear",
         input_dim |-> IF k = 1 THEN input_dim ELSE linear[k - 1],
         hidden_dim |-> linear[k]]]

\* what both constructors do; kernel_size is 0 for a StackedRNN, which has
\* no convolution
Net_init(class, n_features, n_classes, task_type, instance_normalize, rnn, recurrent, bidirectional, linear, kernel_size) ==
    IF task_type \notin TaskTypes THEN NetFailed(ValueError)
    ELSE LET R == recurrent_layers(rnn, n_features, recurrent, bidirectional, 1)
         IN IF R.raised # NoError THEN NetFailed(R.raised)
            ELSE [raised |-> NoError,
                  self |-> [exists |-> TRUE,
                            class |-> class,
                            n_features |-> n_features,
                            n_classes |-> n_classes,
                            task_type |-> task_type,
                            instance_normalize |-> instance_normalize,
                            rnn |-> rnn,
                            recurrent |-> recurrent,
                            bidirectional |-> bidirectional,
                            linear |-> linear,
                            kernel_size |-> kernel_size,
                            num_directions_ |-> IF bidirectional THEN 2 ELSE 1,
                            recurrent_layers_ |-> R.layers,
                            linear_layers_ |-> linear_layers(R.input_dim, linear),
                            final_layer_ |->
                                [kind |-> "Linear",
                                 input_dim |-> IF Len(linear) = 0 THEN R.input_dim
                                               ELSE linear[Len(linear)],
                                 hidden_dim |-> n_classes]]]

StackedRNN_init(n_features, n_classes, task_type, instance_normalize, rnn, recurrent, bidirectional, linear) ==
    Net_init("StackedRNN", n_features, n_classes, task_type, instance_normalize,
             rnn, recurrent, bidirectional, linear, 0)

ConvRNN_init(n_features, n_classes, task_type, instance_normalize, rnn, recurrent, bidirectional, linear, kernel_size) ==
    Net_init("ConvRNN", n_features, n_classes, task_type, instance_normalize,
             rnn, recurrent, bidirectional, linear, kernel_size)

\* forward: the stages applied to the sequences, in order, or the exception.
\* `packed`: the batch is a PackedSequence; n_features: its feature dimension
forward(self, packed, n_features) ==
    LET layers == Min2(Len(self.recurrent), Len(self.recurrent_layers_))
        normalize == IF self.instance_normalize THEN <<"instance_norm">> ELSE << >>
        conv == IF self.class = "ConvRNN"
                THEN <<"conv", "batch_norm", "relu", "maxpool">> ELSE << >>
        final == IF self.task_type = TASK_CLASSIFICATION THEN "log_softmax"
                 ELSE "sigmoid"
    IN IF packed THEN [raised |-> ValueError, output |-> << >>]
       ELSE IF n_features # self.n_features
       THEN [raised |-> ValueError, output |-> << >>]
       ELSE IF self.class = "ConvRNN" /\ self.kernel_size > n_features
       THEN [raised |-> RuntimeError, output |-> << >>]
       ELSE IF layers > 0 /\ self.rnn # "LSTM" /\ self.rnn # "GRU"
       THEN [raised |-> UnboundLocalError, output |-> << >>]
       ELSE [raised |-> NoError,
             output |-> normalize \o conv
                          \o [k \in 1..layers |-> self.recurrent_layers_[k].kind]
                          \o [k \in 1..Len(self.linear_layers_) |-> "linear_tanh"]
                          \o <<"final", final>>]

\* ---- batches ----
CondensedLen(n) == (n * (n - 1)) \div 2

\* largest batch handed to batch_loss
MaxLossN == MaxN - 1

\* ---- state ----
\* obj: the TripletLoss object; args: what its constructor was called with;
\* call, raised: the last call and the exception it ended with;
\* y, distances: the batch; the rest: what the last call computed
\* pos, neg: the condensed offsets of the last triplet_loss;
\* batches: how many batches the object has been given so far;
\* net: the StackedRNN or ConvRNN object; netcall: the last call of a
\* constructor or of forward, with its arguments and outcome
VARIABLES obj, args, call, raised, y, distances, batches, anchors, positives,
          negatives, pos, neg, losses, deltas, loss, net, netcall

vars == <<obj, args, call, raised, y, distances, batches, anchors, positives,
          negatives, pos, neg, losses, deltas, loss, net, netcall>>

NoNetCall == [name |-> "none"]
labeling == <<net, netcall>>

NoArgs == [given |-> FALSE]
Args(metric, margin, clamp, sampling) ==
    [given |-> TRUE, metric |-> metric, margin |-> margin, clamp |-> clamp,
     sampling |-> sampling]

batch == <<y, distances, batches>>
triplets == <<anchors, positives, negatives>>
outcome == <<pos, neg, losses, deltas, loss>>

\* ---- the object's life: construction, then batch_loss on the batch ----
\* The batch is the labels batch['y'] and the condensed distances
\* self.pdist(self.forward(batch)) of its embeddings: the embedding network
\* may return any vectors, so any condensed vector of the batch's size.
Init ==
    /\ obj = NoObject
    /\ args = NoArgs
    /\ call = "none"
    /\ raised = NoError
    /\ \E n \in 1..MaxLossN :
          /\ y \in [0..(n - 1) -> Labels]
          /\ distances \in [0..(CondensedLen(n) - 1) -> 0..MaxDist]
    /\ batches = 1
    /\ net = NoNet /\ netcall = NoNetCall
    /\ anchors = << >> /\ positives = << >> /\ negatives = << >>
    /\ pos = << >> /\ neg = << >>
    /\ losses = << >> /\ deltas = << >> /\ loss = NoLoss

\* TripletLoss(metric=, margin=, clamp=, sampling=): called once
Construct ==
    /\ call = "none"
    /\ \E metric \in MetricArgs, margin \in MarginArgs,
          clamp \in ClampArgs, sampling \in SamplingArgs :
          \E r \in {TripletLoss_init(metric, margin, clamp, sampling)} :
             /\ obj' = r.self
             /\ raised' = r.raised
             /\ args' = Args(metric, margin, clamp, sampling)
    /\ call' = "__init__"
    /\ UNCHANGED <<batch, triplets, outcome, labeling>>

\* a batch_loss that multiplies self.margin_ by max_distance again at
\* every call
BatchLoss_RescalesMargin ==
    /\ obj # NoObject
    /\ call' = "batch_loss"
    /\ obj' = [obj EXCEPT !.margin_ =
                  Min2(obj.margin_ * max_distance(obj.metric).value, 9 * MaxMargin)]
    /\ \E t \in {sampler(obj', y, distances)} :
          IF t.raised # NoError
          THEN /\ raised' = t.raised
               /\ anchors' = << >> /\ positives' = << >> /\ negatives' = << >>
               /\ pos' = << >> /\ neg' = << >>
               /\ losses' = << >> /\ deltas' = << >> /\ loss' = NoLoss
          ELSE \E r \in {triplet_loss(obj', distances, t.anchors, t.positives,
                                      t.negatives)} :
                  /\ raised' = r.raised
                  /\ anchors' = t.anchors
                  /\ positives' = t.positives
                  /\ negatives' = t.negatives
                  /\ pos' = r.pos
                  /\ neg' = r.neg
                  /\ losses' = r.loss
                  /\ deltas' = r.delta
                  /\ loss' = IF r.raised = NoError THEN mean(r.loss) ELSE NoLoss
    /\ UNCHANGED <<args, batch, labeling>>

BatchLoss ==
    /\ obj # NoObject
    /\ call' = "batch_loss"
    /\ \E t \in {sampler(obj, y, distances)} :
          IF t.raised # NoError
          THEN /\ raised' = t.raised
               /\ anchors' = << >> /\ positives' = << >> /\ negatives' = << >>
               /\ pos' = << >> /\ neg' = << >>
               /\ losses' = << >> /\ deltas' = << >> /\ loss' = NoLoss
          ELSE \E r \in {triplet_loss(obj, distances, t.anchors, t.positives,
                                      t.negatives)} :
                  /\ raised' = r.raised
                  /\ anchors' = t.anchors
                  /\ positives' = t.positives
                  /\ negatives' = t.negatives
                  /\ pos' = r.pos
                  /\ neg' = r.neg
                  /\ losses' = r.loss
                  /\ deltas' = r.delta
                  /\ loss' = IF r.raised = NoError THEN mean(r.loss) ELSE NoLoss
    /\ UNCHANGED <<obj, args, batch, labeling>>

Next == Construct \/ BatchLoss

Spec == Init /\ [][Next]_vars

\* ---- the samplers, called on a batch ----
\* A constructed object and a batch; the samplers read nothing of the object.
SamplerInit ==
    /\ obj = TripletLoss_init("cosine", 1, "positive", "all").self
    /\ args = Args("cosine", 1, "positive", "all")
    /\ call = "__init__"
    /\ raised = NoError
    /\ \E n \in 1..MaxN :
          /\ y \in [0..(n - 1) -> Labels]
          /\ distances \in [0..(CondensedLen(n) - 1) -> 0..MaxDist]
    /\ batches = 1
    /\ net = NoNet /\ netcall = NoNetCall
    /\ anchors = << >> /\ positives = << >> /\ negatives = << >>
    /\ pos = << >> /\ neg = << >>
    /\ losses = << >> /\ deltas = << >> /\ loss = NoLoss

Sampled(name, result) ==
    /\ obj # NoObject
    /\ call' = name
    /\ \E t \in {result} :
          /\ raised' = t.raised
          /\ anchors' = t.anchors
          /\ positives' = t.positives
          /\ negatives' = t.negatives
    /\ UNCHANGED <<obj, args, batch, outcome, labeling>>

BatchAll == Sampled("batch_all", batch_all(y, distances))
BatchHard == Sampled("batch_hard", batch_hard(y, distances))
BatchNegative == Sampled("batch_negative", batch_negative(y, distances))
BatchEasy == Sampled("batch_easy", batch_easy(y, distances))

SamplerNext == BatchAll \/ BatchHard \/ BatchNegative \/ BatchEasy

SamplerSpec == SamplerInit /\ [][SamplerNext]_vars

\* ---- triplet_loss called on index lists ----
\* A constructed object and a batch of two items or more; the index lists
\* are any indices of the batch, a row equal to its column included.
MapperInit ==
    /\ obj = TripletLoss_init("cosine", 1, "positive", "all").self
    /\ args = Args("cosine", 1, "positive", "all")
    /\ call = "__init__"
    /\ raised = NoError
    /\ \E n \in 2..MaxLossN :
          /\ y \in [0..(n - 1) -> Labels]
          /\ distances \in [0..(CondensedLen(n) - 1) -> 0..MaxDist]
    /\ batches = 1
    /\ net = NoNet /\ netcall = NoNetCall
    /\ anchors = << >> /\ positives = << >> /\ negatives = << >>
    /\ pos = << >> /\ neg = << >>
    /\ losses = << >> /\ deltas = << >> /\ loss = NoLoss

\* self.triplet_loss(distances, [anchor], [positive], [negative],
\*                   return_delta=True)
TripletLossCall ==
    /\ obj # NoObject
    /\ call' = "triplet_loss"
    /\ \E anchor, positive, negative \in 0..(Size(y) - 1) :
          \E r \in {triplet_loss(obj, distances, <<anchor>>, <<positive>>,
                                  <<negative>>)} :
             /\ anchors' = <<anchor>>
             /\ positives' = <<positive>>
             /\ negatives' = <<negative>>
             /\ raised' = r.raised
             /\ pos' = r.pos
             /\ neg' = r.neg
             /\ losses' = r.loss
             /\ deltas' = r.delta
    /\ UNCHANGED <<obj, args, batch, loss, labeling>>

MapperNext == TripletLossCall

MapperSpec == MapperInit /\ [][MapperNext]_vars

\* ---- an object used on one batch after another ----
\* The batches of a training run: any labels, and distance vectors of a
\* few patterns.
BatchDistances(n) ==
    {[k \in 0..(CondensedLen(n) - 1) |-> (k + s) % (MaxDist + 1)] : s \in 0..MaxDist}

LifeInit ==
    /\ obj = NoObject
    /\ args = NoArgs
    /\ call = "none"
    /\ raised = NoError
    /\ \E n \in 1..MaxLossN :
          /\ y \in [0..(n - 1) -> Labels]
          /\ distances \in BatchDistances(n)
    /\ batches = 1
    /\ net = NoNet /\ netcall = NoNetCall
    /\ anchors = << >> /\ positives = << >> /\ negatives = << >>
    /\ pos = << >> /\ neg = << >>
    /\ losses = << >> /\ deltas = << >> /\ loss = NoLoss

\* batch_loss is over: the training loop takes the next batch of the
\* generator; what the calls on the batch before returned is gone
NextBatch ==
    /\ obj # NoObject
    /\ call = "batch_loss"
    /\ batches < MaxBatches
    /\ batches' = batches + 1
    /\ call' = "next_batch"
    /\ raised' = NoError
    /\ \E n \in 1..MaxLossN :
          /\ y' \in [0..(n - 1) -> Labels]
          /\ distances' \in BatchDistances(n)
    /\ anchors' = << >> /\ positives' = << >> /\ negatives' = << >>
    /\ pos' = << >> /\ neg' = << >>
    /\ losses' = << >> /\ deltas' = << >> /\ loss' = NoLoss
    /\ UNCHANGED <<obj, args, labeling>>

\* self.triplet_loss(distances, anchors, positives, negatives,
\* return_delta=True) on the lists a sampler has just returned
TripletLossOfSampled ==
    /\ obj # NoObject
    /\ call \in {"batch_all", "batch_hard", "batch_negative", "batch_easy"}
    /\ raised = NoError
    /\ call' = "triplet_loss"
    /\ \E r \in {triplet_loss(obj, distances, anchors, positives, negatives)} :
          /\ raised' = r.raised
          /\ pos' = r.pos
          /\ neg' = r.neg
          /\ losses' = r.loss
          /\ deltas' = r.delta
    /\ UNCHANGED <<obj, args, batch, triplets, loss, labeling>>

LifeNext ==
    \/ Construct
    \/ NextBatch
    \/ BatchLoss
    \/ BatchAll
    \/ BatchHard
    \/ BatchNegative
    \/ BatchEasy
    \/ TripletLossOfSampled

LifeSpec == LifeInit /\ [][LifeNext]_vars

\* ---- the labeling models: construction, then forward ----
RnnArgs == {"LSTM", "GRU", "RNN"}
TaskTypeArgs == TaskTypes \cup {"TASK_OTHER"}
HiddenDims == {16, 32}

\* lists of at most MaxLayers hidden dimensions, the empty list included
LayerLists == UNION {[1..k -> HiddenDims] : k \in 0..MaxLayers}

\* no TripletLoss object and no batch; no model yet
NetInit ==
    /\ obj = NoObject
    /\ args = NoArgs
    /\ call = "none"
    /\ raised = NoError
    /\ y = << >> /\ distances = << >>
    /\ batches = 0
    /\ net = NoNet /\ netcall = NoNetCall
    /\ anchors = << >> /\ positives = << >> /\ negatives = << >>
    /\ pos = << >> /\ neg = << >>
    /\ losses = << >> /\ deltas = << >> /\ loss = NoLoss

\* StackedRNN(n_features, n_classes, task_type, ...)
StackedRNNConstruct ==
    /\ netcall = NoNetCall
    /\ \E n_features \in 1..MaxFeatures, task_type \in TaskTypeArgs,
          instance_normalize \in BOOLEAN, rnn \in RnnArgs,
          recurrent \in LayerLists, bidirectional \in BOOLEAN, linear \in LayerLists :
          \E r \in {StackedRNN_init(n_features, 2, task_type, instance_normalize,
                                     rnn, recurrent, bidirectional, linear)} :
             /\ net' = r.self
             /\ netcall' = [name |-> "StackedRNN", task_type |-> task_type,
                            rnn |-> rnn, recurrent |-> recurrent, raised |-> r.raised]
    /\ UNCHANGED <<obj, args, call, raised, batch, triplets, outcome>>

\* ConvRNN(n_features, n_classes, task_type, ..., kernel_size=)
ConvRNNConstruct ==
    /\ netcall = NoNetCall
    /\ \E n_features \in 1..MaxFeatures, task_type \in TaskTypeArgs,
          instance_normalize \in BOOLEAN, rnn \in RnnArgs,
          recurrent \in LayerLists, bidirectional \in BOOLEAN, linear \in LayerLists,
          kernel_size \in 1..MaxFeatures :
          \E r \in {ConvRNN_init(n_features, 2, task_type, instance_normalize,
                                  rnn, recurrent, bidirectional, linear, kernel_size)} :
             /\ net' = r.self
             /\ netcall' = [name |-> "ConvRNN", task_type |-> task_type,
                            rnn |-> rnn, recurrent |-> recurrent, raised |-> r.raised]
    /\ UNCHANGED <<obj, args, call, raised, batch, triplets, outcome>>

\* net(sequences)
Forward ==
    /\ net # NoNet
    /\ \E packed \in BOOLEAN, n_features \in 1..MaxFeatures :
          \E r \in {forward(net, packed, n_features)} :
             netcall' = [name |-> "forward", rnn |-> net.rnn, raised |-> r.raised,
                         output |-> r.output]
    /\ UNCHANGED <<net, obj, args, call, raised, batch, triplets, outcome>>

NetNext == StackedRNNConstruct \/ ConvRNNConstruct \/ Forward

NetSpec == NetInit /\ [][NetNext]_vars

\* ======================================================================
\* Properties
\* ======================================================================
N == Size(y)
Idx == 0..(N - 1)

\* d(i, j) of the batch: the entry of the pair {i, j} in the condensed vector
dist(i, j) == IF i = j THEN 0 ELSE distances[TriangleOffset(N, i, j)]

\* same-label partners and different-label examples of a batch index
Partners(a) == {p \in Idx : p # a /\ y[p] = y[a]}
Others(a) == {m \in Idx : y[m] # y[a]}

SamplerCalls == {"batch_all", "batch_hard", "batch_negative", "batch_easy"}
SamplerReturned == call \in SamplerCalls /\ raised = NoError

SameLength == Len(anchors) = Len(positives) /\ Len(positives) = Len(negatives)
Emitted == 1..Len(anchors)
TripletAt(k) == <<anchors[k], positives[k], negatives[k]>>
EmittedTriplets == [k \in Emitted |-> TripletAt(k)]
EmittedSet == {TripletAt(k) : k \in Emitted}

\* every (anchor, positive, negative) the labels allow
AllTriplets ==
    {t \in Idx \X Idx \X Idx : t[1] # t[2] /\ y[t[1]] = y[t[2]] /\ y[t[3]] # y[t[1]]}

LexLess(s, t) ==
    \/ s[1] < t[1]
    \/ s[1] = t[1] /\ s[2] < t[2]
    \/ s[1] = t[1] /\ s[2] = t[2] /\ s[3] < t[3]

LabelsAABB == [i \in 0..3 |-> IF i < 2 THEN "A" ELSE "B"]

\* C1: whenever one of the four samplers returns, its three lists have the
\* same length and every triplet (a, p, n) is made of batch indices with
\* y[a] = y[p], y[a] # y[n] and a # p.
C1_TripletsWellFormed ==
    SamplerReturned =>
        /\ SameLength
        /\ \A k \in Emitted :
              /\ anchors[k] \in Idx /\ positives[k] \in Idx /\ negatives[k] \in Idx
              /\ y[anchors[k]] = y[positives[k]]
              /\ y[anchors[k]] # y[negatives[k]]
              /\ anchors[k] # positives[k]

\* batch_hard has returned one triplet per index of a five-item batch
C1_Witness ==
    /\ call = "batch_hard" /\ raised = NoError
    /\ N = 5 /\ Len(anchors) = 5 /\ Len(negatives) = 5

\* C2: when some anchor's label occurs once and other labels are present,
\* every sampler returns without raising, emits no triplet with that
\* anchor, and (all, hard, negative) still emits triplets for every anchor
\* that has a partner and a different-label example.
C2_SingletonAnchorSkipped ==
    (call \in SamplerCalls /\ \E a \in Idx : Partners(a) = {} /\ Others(a) # {}) =>
        /\ raised = NoError
        /\ \A k \in Emitted : Partners(anchors[k]) # {}
        /\ call # "batch_easy" =>
              \A a \in Idx : (Partners(a) # {} /\ Others(a) # {}) =>
                  \E k \in Emitted : anchors[k] = a

\* C3: on a batch of two or more examples that all carry one label, every
\* sampler returns three empty lists and does not raise.
C3_OneLabelBatchEmpty ==
    (call \in SamplerCalls /\ N >= 2 /\ \A i, j \in Idx : y[i] = y[j]) =>
        /\ raised = NoError
        /\ anchors = << >> /\ positives = << >> /\ negatives = << >>

\* C4: batch_all returns exactly the triplets (a, p, n) with a # p,
\* y[a] = y[p], y[n] # y[a], each once, in lexicographic order, whatever
\* the distances; for y = [A, A, B, B] these are the 8 listed triplets.
C4_BatchAllExact ==
    call = "batch_all" =>
        /\ raised = NoError
        /\ SameLength
        /\ EmittedSet = AllTriplets
        /\ \A k \in Emitted : k < Len(anchors) => LexLess(TripletAt(k), TripletAt(k + 1))
        /\ y = LabelsAABB =>
              EmittedTriplets = << <<0, 1, 2>>, <<0, 1, 3>>, <<1, 0, 2>>, <<1, 0, 3>>,
                                   <<2, 3, 0>>, <<2, 3, 1>>, <<3, 2, 0>>, <<3, 2, 1>> >>

\* batch_all has returned 8 triplets for y = [A, A, B, B] with unequal distances
C4_Witness ==
    /\ call = "batch_all" /\ raised = NoError
    /\ y = LabelsAABB /\ Len(anchors) = 8
    /\ dist(0, 2) # dist(0, 3)

\* C5: when every label occurs at least twice and two labels occur,
\* batch_hard returns one triplet per index in anchor order, with a
\* farthest same-label partner as positive and a nearest different-label
\* example as negative.
C5_BatchHardExact ==
    (call = "batch_hard" /\ (\A a \in Idx : Partners(a) # {})
                         /\ (\E a, b \in Idx : y[a] # y[b])) =>
        /\ raised = NoError
        /\ SameLength
        /\ Len(anchors) = N
        /\ \A k \in Emitted :
              /\ anchors[k] = k - 1
              /\ positives[k] \in Partners(k - 1)
              /\ \A p \in Partners(k - 1) : dist(k - 1, p) <= dist(k - 1, positives[k])
              /\ negatives[k] \in Others(k - 1)
              /\ \A m \in Others(k - 1) : dist(k - 1, negatives[k]) <= dist(k - 1, m)

\* batch_hard has chosen among partners, and among negatives, at unequal
\* distances, and not the first candidate in either case
C5_Witness ==
    /\ call = "batch_hard" /\ raised = NoError /\ Len(anchors) = N
    /\ \E a \in Idx : \E p \in Partners(a) :
          /\ p < positives[a + 1]
          /\ dist(a, p) < dist(a, positives[a + 1])
    /\ \E a \in Idx : \E m \in Others(a) :
          /\ m < negatives[a + 1]
          /\ dist(a, negatives[a + 1]) < dist(a, m)

RECURSIVE OrderedPairs(_)
\* sum over the labels in S of c * (c - 1), c the number of items with the label
OrderedPairs(S) ==
    IF S = {} THEN 0
    ELSE LET l == CHOOSE x \in S : TRUE
             c == Cardinality({i \in Idx : y[i] = l})
         IN c * (c - 1) + OrderedPairs(S \ {l})

\* C6: on a batch with two labels or more, batch_negative returns, for each
\* anchor, one triplet per same-label partner (sum of c*(c-1) in all), all
\* with the same negative: a nearest different-label example.
C6_BatchNegativeExact ==
    (call = "batch_negative" /\ \E a, b \in Idx : y[a] # y[b]) =>
        /\ raised = NoError
        /\ SameLength
        /\ Len(anchors) = OrderedPairs(Labels)
        /\ \A a \in Idx :
              LET mine == {k \in Emitted : anchors[k] = a}
              IN /\ {positives[k] : k \in mine} = Partners(a)
                 /\ Cardinality(mine) = Cardinality(Partners(a))
                 /\ \A k1, k2 \in mine : negatives[k1] = negatives[k2]
                 /\ \A k \in mine :
                       /\ negatives[k] \in Others(a)
                       /\ \A m \in Others(a) : dist(a, negatives[k]) <= dist(a, m)

\* batch_negative has returned several triplets of one anchor whose nearest
\* negative is not its first different-label example
C6_Witness ==
    /\ call = "batch_negative" /\ raised = NoError
    /\ \E k \in Emitted :
          /\ Cardinality(Partners(anchors[k])) >= 2
          /\ \E m \in Others(anchors[k]) :
                m < negatives[k] /\ dist(anchors[k], negatives[k]) < dist(anchors[k], m)

\* the triplets batch_all returns on the batch, in its order
BatchAllTriplets ==
    LET t == batch_all(y, distances)
    IN [k \in 1..Len(t.anchors) |-> <<t.anchors[k], t.positives[k], t.negatives[k]>>]

IsEasy(t) == dist(t[1], t[2]) <= dist(t[1], t[3])

Constructed == call # "none"

\* C8: a constructor call with a clamp outside {positive, sigmoid,
\* softmargin} or a sampling outside {all, hard, negative, easy} ends with
\* an error (ValueError when the metric is a known one) and leaves no
\* object, so batch_loss never runs with such a value; with a known metric
\* every clamp and sampling of the two sets is accepted as given.
C8_ClampSamplingChecked ==
    Constructed =>
        /\ (args.clamp \notin Clamps \/ args.sampling \notin Samplings) =>
              /\ obj = NoObject
              /\ raised # NoError
              /\ args.metric \in Metrics => raised = ValueError
        /\ obj # NoObject => obj.clamp \in Clamps /\ obj.sampling \in Samplings
        /\ call = "batch_loss" =>
              /\ obj # NoObject
              /\ raised \notin {AttributeError, UnboundLocalError}
        /\ (args.metric \in Metrics /\ args.clamp \in Clamps
               /\ args.sampling \in Samplings) =>
              /\ obj # NoObject
              /\ obj.clamp = args.clamp
              /\ obj.sampling = args.sampling

\* a constructor call with a known metric and clamp and an unknown sampling
\* has ended with ValueError
C8_Witness ==
    /\ call = "__init__" /\ raised = ValueError /\ obj = NoObject
    /\ args.metric \in Metrics /\ args.clamp \in Clamps
    /\ args.sampling \notin Samplings

\* C9: a constructor call with a metric outside {euclidean, cosine,
\* angular} fails and leaves no object; no object with another metric is
\* ever handed to batch_loss.
C9_MetricChecked ==
    Constructed =>
        /\ args.metric \notin Metrics => obj = NoObject /\ raised # NoError
        /\ obj # NoObject => obj.metric \in Metrics

\* a constructor call with an unknown metric and a known clamp and sampling
\* has failed
C9_Witness ==
    /\ call = "__init__" /\ obj = NoObject /\ raised # NoError
    /\ args.metric \notin Metrics
    /\ args.clamp \in Clamps /\ args.sampling \in Samplings

\* C10: with 'positive' clamping the loss of every triplet is
\* max(0, delta + margin), delta = d(a, p) - d(a, n) and
\* margin = margin factor x D as given to the constructor: 0 when
\* delta + margin <= 0, never negative, non-decreasing in delta.
C10_PositiveClamp ==
    (call = "batch_loss" /\ raised = NoError /\ obj.clamp = "positive") =>
        LET margin == args.margin * max_distance(args.metric).value
        IN /\ Len(losses) = Len(anchors) /\ Len(deltas) = Len(anchors)
           /\ \A k \in Emitted :
                 LET delta == dist(anchors[k], positives[k])
                                 - dist(anchors[k], negatives[k])
                 IN /\ deltas[k] = delta
                    /\ losses[k][1] = "value"
                    /\ delta + margin <= 0 => losses[k][2] = 0
                    /\ delta + margin > 0 => losses[k][2] = delta + margin
                    /\ losses[k][2] >= 0
           /\ \A k1, k2 \in Emitted :
                 deltas[k1] <= deltas[k2] => losses[k1][2] <= losses[k2][2]

\* batch_loss with 'positive' clamping has given one triplet the loss 0 at a
\* negative delta and another a positive loss
C10_Witness ==
    /\ call = "batch_loss" /\ raised = NoError /\ obj.clamp = "positive"
    /\ \E k1, k2 \in Emitted :
          /\ deltas[k1] < 0 /\ losses[k1][2] = 0
          /\ losses[k2][2] > 0

\* the lists returned by the sampler that the constructor's `sampling` names
NamedSampler ==
    CASE args.sampling = "all"      -> batch_all(y, distances)
      [] args.sampling = "hard"     -> batch_hard(y, distances)
      [] args.sampling = "negative" -> batch_negative(y, distances)
      [] args.sampling = "easy"     -> batch_easy(y, distances)

\* the margin the constructor was asked for: margin factor x D
ArgsMargin == args.margin * max_distance(args.metric).value

\* the clamped loss of one triplet, by the clamp given to the constructor
ClampedLoss(delta) ==
    CASE args.clamp = "positive"   -> <<"value", IF delta + ArgsMargin > 0
                                                 THEN delta + ArgsMargin ELSE 0>>
      [] args.clamp = "softmargin" -> <<"log1p_exp", delta>>
      [] args.clamp = "sigmoid"    -> <<"sigmoid", 10 * (delta + ArgsMargin)>>

\* C11: when batch_loss returns, its triplets are those of the sampler named
\* by the configured sampling (and of no other), both distances of every
\* triplet are read in the condensed vector the sampler was given, and
\* 'loss' is the mean of the clamped losses of the emitted triplets, one
\* term per triplet.
C11_BatchLossMean ==
    (call = "batch_loss" /\ raised = NoError) =>
        /\ NamedSampler.raised = NoError
        /\ anchors = NamedSampler.anchors
        /\ positives = NamedSampler.positives
        /\ negatives = NamedSampler.negatives
        /\ args.sampling = "all" => EmittedSet = AllTriplets
        /\ args.sampling = "hard" => Len(anchors) = N
        /\ args.sampling = "negative" => Len(anchors) = OrderedPairs(Labels)
        /\ args.sampling = "easy" => EmittedSet = {t \in AllTriplets : IsEasy(t)}
        /\ Len(deltas) = Len(anchors) /\ Len(losses) = Len(anchors)
        /\ \A k \in Emitted :
              /\ deltas[k] = dist(anchors[k], positives[k])
                                - dist(anchors[k], negatives[k])
              /\ losses[k] = ClampedLoss(deltas[k])
        /\ loss.terms = losses
        /\ loss.count = Len(anchors)
        /\ loss.nan = (Len(anchors) = 0)

\* batch_loss with 'hard' sampling has averaged the unequal losses of the
\* four triplets of a batch on which batch_all returns more
C11_Witness ==
    /\ call = "batch_loss" /\ raised = NoError
    /\ obj.sampling = "hard" /\ Len(anchors) = 4
    /\ Cardinality(AllTriplets) > 4
    /\ loss.count = 4 /\ ~loss.nan
    /\ \E k1, k2 \in Emitted : losses[k1] # losses[k2]

\* the pairs (i, j), i < j, of a batch, and the number of them that come
\* before (lo, hi) in row-major order (0,1), (0,2), ..., (1,2), ...
UpperPairs == {q \in Idx \X Idx : q[1] < q[2]}
RowMajorRank(lo, hi) ==
    Cardinality({q \in UpperPairs : q[1] < lo \/ (q[1] = lo /\ q[2] < hi)})

\* offset -> pair: the pair of the upper triangle with that rank
PairAt(offset) == CHOOSE q \in UpperPairs : RowMajorRank(q[1], q[2]) = offset

\* C12: for a batch of n >= 2 items, the square-to-condensed mapping of
\* triplet_loss gives n*i - i*(i+1)/2 + j - i - 1 for i < j and the same
\* offset for (j, i); it is one-to-one from the unordered pairs onto
\* 0..n(n-1)/2 - 1 in row-major order, the offset maps back to (min, max),
\* and a call with a row equal to its column ends with an error.
C12_CondensedBijection ==
    (call = "triplet_loss" /\ N >= 2) =>
        LET L == (N * (N - 1)) \div 2
            a == anchors[1]
            p == positives[1]
            m == negatives[1]
        IN /\ Size(distances) = L
           /\ (a = p \/ a = m) <=> raised # NoError
           /\ raised = NoError =>
                 /\ pos[1] = RowMajorRank(Min2(a, p), Max2(a, p))
                 /\ neg[1] = RowMajorRank(Min2(a, m), Max2(a, m))
                 /\ pos[1] \in 0..(L - 1) /\ neg[1] \in 0..(L - 1)
                 /\ PairAt(pos[1]) = <<Min2(a, p), Max2(a, p)>>
                 /\ PairAt(neg[1]) = <<Min2(a, m), Max2(a, m)>>
                 /\ (p = m) <=> (pos[1] = neg[1])
                 /\ deltas[1] = dist(a, p) - dist(a, m)
                 /\ deltas[1] = dist(p, a) - dist(m, a)
           /\ \A q \in UpperPairs :
                 /\ to_condensed(N, q[1], q[2])
                       = N * q[1] - (q[1] * (q[1] + 1)) \div 2 + q[2] - q[1] - 1
                 /\ to_condensed(N, q[2], q[1]) = to_condensed(N, q[1], q[2])
           /\ {to_condensed(N, q[1], q[2]) : q \in UpperPairs} = 0..(L - 1)
           /\ \A q1, q2 \in UpperPairs :
                 to_condensed(N, q1[1], q1[2]) = to_condensed(N, q2[1], q2[2]) => q1 = q2

\* triplet_loss has mapped (3, 1) and (3, 2) of a four-item batch, given
\* column-first, to the offsets 4 and 5 of (1, 3) and (2, 3)
C12_Witness ==
    /\ call = "triplet_loss" /\ raised = NoError /\ N = 4
    /\ anchors = <<3>> /\ positives = <<1>> /\ negatives = <<2>>
    /\ pos = <<4>> /\ neg = <<5>>
    /\ distances[4] # distances[5]

Lowest(S) == CHOOSE i \in S : \A j \in S : i <= j

\* the different-label examples nearest to a, the partners farthest from a
Nearest(a) == {m \in Others(a) : \A m2 \in Others(a) : dist(a, m) <= dist(a, m2)}
Farthest(a) == {p \in Partners(a) : \A p2 \in Partners(a) : dist(a, p2) <= dist(a, p)}

PairLess(k1, k2) ==
    \/ anchors[k1] < anchors[k2]
    \/ anchors[k1] = anchors[k2] /\ positives[k1] < positives[k2]

\* C14: what batch_hard and batch_negative return is fixed by the labels
\* and the distances alone, so two calls on the same batch return the same
\* lists: the anchors (and the positives of batch_negative) come in index
\* order, the negative is the lowest-index example among the nearest
\* different-label ones and the positive of batch_hard the lowest-index
\* partner among the farthest.
C14_LowestIndexOnTies ==
    (call \in {"batch_hard", "batch_negative"} /\ raised = NoError) =>
        /\ \A k \in Emitted : negatives[k] = Lowest(Nearest(anchors[k]))
        /\ call = "batch_hard" =>
              /\ Len(anchors) = N
              /\ \A k \in Emitted :
                    /\ anchors[k] = k - 1
                    /\ positives[k] = Lowest(Farthest(anchors[k]))
        /\ call = "batch_negative" =>
              /\ {<<anchors[k], positives[k]>> : k \in Emitted}
                    = {q \in Idx \X Idx : q[2] \in Partners(q[1])}
              /\ \A k \in Emitted : k < Len(anchors) => PairLess(k, k + 1)

\* batch_hard has taken the lower of two partners at the same distance, and
\* the lower of two different-label examples at the same, smallest, distance
\* after a farther example of lower index
C14_Witness ==
    /\ call = "batch_hard" /\ raised = NoError /\ Len(anchors) = N
    /\ \E a \in Idx :
          /\ Cardinality(Farthest(a)) >= 2
          /\ positives[a + 1] = Lowest(Farthest(a))
    /\ \E a \in Idx :
          /\ Cardinality(Nearest(a)) >= 2
          /\ Lowest(Nearest(a)) # Lowest(Others(a))
          /\ negatives[a + 1] = Lowest(Nearest(a))

\* the object a constructor call with the recorded arguments builds
AsConstructed ==
    [exists   |-> TRUE,
     metric   |-> args.metric,
     margin   |-> args.margin,
     margin_  |-> ArgsMargin,
     clamp    |-> args.clamp,
     sampling |-> args.sampling]

\* delta and clamped loss of the k-th triplet of the named sampler, from the
\* current batch and the constructor's arguments
NamedDelta(k) ==
    dist(NamedSampler.anchors[k], NamedSampler.positives[k])
        - dist(NamedSampler.anchors[k], NamedSampler.negatives[k])

\* C15: after any sequence of batch_loss, triplet_loss and sampler calls,
\* on any sequence of batches, the object still holds the metric, margin,
\* margin_, clamp and sampling set at construction, and what batch_loss
\* returns (or raises) is fixed by the current batch and that
\* configuration alone.
C15_ConfigurationFrozen ==
    obj # NoObject =>
        /\ obj = AsConstructed
        /\ call = "batch_loss" =>
              /\ raised = NamedSampler.raised
              /\ raised = NoError =>
                    /\ triplets = <<NamedSampler.anchors, NamedSampler.positives,
                                    NamedSampler.negatives>>
                    /\ deltas = [k \in Emitted |-> NamedDelta(k)]
                    /\ loss = [nan   |-> Len(anchors) = 0,
                               terms |-> [k \in Emitted |-> ClampedLoss(NamedDelta(k))],
                               count |-> Len(anchors)]

\* batch_loss has returned a loss on a second batch, taken after batch_loss
\* was over on the first
C15_Witness ==
    /\ obj # NoObject /\ call = "batch_loss" /\ raised = NoError
    /\ batches = 2
    /\ N = 4 /\ loss.count >= 4 /\ obj.margin_ > 0

\* C16: for n >= 2 and a condensed vector of length L = n(n-1)/2,
\* triplet_loss recovers n = floor((1 + sqrt(1 + 8L)) / 2) exactly, and for
\* every triplet a sampler emitted on the batch both condensed offsets lie
\* in 0..L-1: batch_loss never reads out of range and triplet_loss never
\* receives a row equal to its column.
C16_OffsetsInRange ==
    (call = "batch_loss" /\ N >= 2) =>
        LET L == (N * (N - 1)) \div 2
        IN /\ Size(distances) = L
           /\ EstimateN(L) = N
           /\ \A n \in 2..(2 * MaxN) : EstimateN((n * (n - 1)) \div 2) = n
           /\ raised # IndexError
           /\ raised # NoError => raised = ValueError /\ NamedSampler.raised = ValueError
           /\ raised = NoError =>
                 /\ Len(pos) = Len(anchors) /\ Len(neg) = Len(anchors)
                 /\ \A k \in Emitted :
                       /\ anchors[k] # positives[k] /\ anchors[k] # negatives[k]
                       /\ pos[k] \in 0..(L - 1) /\ neg[k] \in 0..(L - 1)
                       /\ pos[k] = TriangleOffset(N, anchors[k], positives[k])
                       /\ neg[k] = TriangleOffset(N, anchors[k], negatives[k])

\* batch_loss has read every entry 0..5 of the condensed vector of a
\* four-item batch, the last one, 5, as an anchor-positive distance
C16_Witness ==
    /\ call = "batch_loss" /\ raised = NoError /\ N = 4
    /\ Size(distances) = 6
    /\ {pos[k] : k \in Emitted} \cup {neg[k] : k \in Emitted} = 0..5
    /\ \E k \in Emitted : pos[k] = 5

\* C17: a StackedRNN or ConvRNN constructor call with an rnn other than
\* 'LSTM' and 'GRU' ends with ValueError and leaves no model, whatever the
\* other arguments (an empty list of recurrent layers included), so forward
\* never runs on a model whose rnn is neither.
C17_RnnChecked ==
    /\ (netcall.name \in {"StackedRNN", "ConvRNN"} /\ netcall.rnn \notin {"LSTM", "GRU"}) =>
          /\ netcall.raised = ValueError
          /\ net = NoNet
    /\ net # NoNet => net.rnn \in {"LSTM", "GRU"}
    /\ netcall.name = "forward" => netcall.rnn \in {"LSTM", "GRU"}

====
